---- MODULE Spec2Model ----
(***************************************************************************)
(* ReactAgent.run of session_1/chat_with_react_agent.py as a state machine. *)
(* One run of the loop: the while test, the gateway call                   *)
(* (client.chat.completions.create), the handling of its response, and one *)
(* step per iteration of the for loop over response_message.tool_calls.    *)
(* The gateway and the lookup service (svatkyapi.cz) are the environment:  *)
(* their answers are chosen nondeterministically from small sets.          *)
(***************************************************************************)
EXTENDS Integers, Sequences, FiniteSets, TLC

(***************************************************************************)
(* Bounds of the model (not program constants).                            *)
(***************************************************************************)
\* longest list of tool calls the gateway puts in one response
MaxCalls == 3
\* longest initial transcript handed to run
MaxInitLen == 2
\* how many times, over one run, the environment may depart from the plain
\* turn (one get_name_for_day request, decodable arguments, no text beside
\* the request, lookup status 200): every extra request, other tool name,
\* undecodable argument payload, text beside requests and lookup failure
\* counts one
MaxDeviations == 2

(***************************************************************************)
(* Program constants.                                                      *)
(***************************************************************************)
\* self.max_iterations = 10
max_iterations == 10

\* the string run returns when the while loop runs out
LimitMessage == "Error: Maximum iterations reached without getting a final answer."

\* Python's None
None == "None"

(***************************************************************************)
(* The environment's alphabets.                                            *)
(***************************************************************************)
Date == "2024-10-28"

\* argument payloads the model may emit: a JSON object, and a truncated one
ArgsGood == "{\"date\": \"2024-10-28\"}"
ArgsBad == "{\"date\": "
Arguments == {ArgsGood, ArgsBad}

\* tool names the model may request; the last is not in available_functions
RequestNames ==
    {"get_name_for_day", "get_all_info_about_day", "get_names_for_week",
     "nonexistent_tool"}

\* text of a response; the model is free to produce any string, the string
\* of the iteration limit included
Texts == {"Lukas has a name day on 2024-10-28.", LimitMessage}

\* what requests.get does: status 200, another status, or raises
HttpOutcomes == {"200", "500", "ConnectionError"}

\* the body of a status 200 answer of /api/day (response.json()), and the
\* name it holds (data.get("name"))
DayData == "{\"name\": \"Lukas\"}"
DayName == "Lukas"

(***************************************************************************)
(* json.loads on the argument payloads.                                    *)
(***************************************************************************)
json_loads(s) ==
    IF s = ArgsGood
    THEN [raised |-> FALSE, value |-> [date |-> Date]]
    ELSE [raised |-> TRUE, value |-> "JSONDecodeError"]

(***************************************************************************)
(* The tool functions.  http is the outcome of requests.get.               *)
(***************************************************************************)
get_name_for_day(date, http) ==
    CASE http = "200" ->
           [raised |-> FALSE, value |-> [date |-> date, name |-> DayName]]
      [] http = "500" ->
           [raised |-> FALSE,
            value |-> [date |-> date, name |-> "Error fetching data"]]
      [] OTHER -> [raised |-> TRUE, value |-> "ConnectionError"]

get_all_info_about_day(date, http) ==
    CASE http = "200" ->
           [raised |-> FALSE,
            value |-> [date |-> date, data |-> DayData]]
      [] http = "500" ->
           [raised |-> FALSE,
            value |-> [date |-> date, data |-> "Error fetching data"]]
      [] OTHER -> [raised |-> TRUE, value |-> "ConnectionError"]

\* on status 200 the body calls data.map, which no JSON value has
get_names_for_week(date, http) ==
    CASE http = "200" -> [raised |-> TRUE, value |-> "AttributeError"]
      [] http = "500" ->
           [raised |-> FALSE,
            value |-> [date |-> date, weekData |-> "Error fetching data"]]
      [] OTHER -> [raised |-> TRUE, value |-> "ConnectionError"]

\* the keys of the dict available_functions
available_functions ==
    {"get_name_for_day", "get_all_info_about_day", "get_names_for_week"}

\* available_functions[function_name](**function_args)
CallFunction(function_name, function_args, http) ==
    CASE function_name = "get_name_for_day" ->
           get_name_for_day(function_args.date, http)
      [] function_name = "get_all_info_about_day" ->
           get_all_info_about_day(function_args.date, http)
      [] OTHER -> get_names_for_week(function_args.date, http)

\* json.dumps on the values the tool functions return and on decoded
\* arguments
json_dumps(v) ==
    CASE v = [date |-> Date, name |-> DayName] ->
           "{\"date\": \"2024-10-28\", \"name\": \"Lukas\"}"
      [] v = [date |-> Date, name |-> "Error fetching data"] ->
           "{\"date\": \"2024-10-28\", \"name\": \"Error fetching data\"}"
      [] v = [date |-> Date, data |-> DayData] ->
           "{\"date\": \"2024-10-28\", \"data\": {\"name\": \"Lukas\"}}"
      [] v = [date |-> Date, data |-> "Error fetching data"] ->
           "{\"date\": \"2024-10-28\", \"data\": \"Error fetching data\"}"
      [] v = [date |-> Date] -> "{\"date\": \"2024-10-28\"}"
      [] OTHER ->
           "{\"date\": \"2024-10-28\", \"weekData\": \"Error fetching data\"}"

(***************************************************************************)
(* Messages of the transcript (the dicts of the list `messages`).          *)
(***************************************************************************)
SystemMessage == [role |-> "system", content |-> "You are a helpful AI assistant."]
UserMessage == [role |-> "user", content |-> "Kdo mel svatek 28. rijna 2024?"]

\* the lists main hands to run (length 2), and shorter or longer ones
InitialTranscript(L) ==
    [i \in 1..L |-> IF i = 1 /\ L > 1 THEN SystemMessage ELSE UserMessage]

InitialTranscripts == {InitialTranscript(L) : L \in 1..MaxInitLen}

\* one entry of the "tool_calls" list of the assistant message, built from
\* the response's tool call tc
RecordedCall(tc) ==
    [id |-> tc.id, type |-> "function",
     function |-> [name |-> tc.function.name,
                   arguments |-> tc.function.arguments]]

\* the assistant message leaves out the text of the response
AssistantCallMessageNoContent(content, calls) ==
    [role |-> "assistant", content |-> None,
     tool_calls |-> [k \in 1..Len(calls) |-> RecordedCall(calls[k])]]

\* the assistant message that records the response's tool calls
AssistantCallMessage(content, calls) ==
    [role |-> "assistant", content |-> content,
     tool_calls |-> [k \in 1..Len(calls) |-> RecordedCall(calls[k])]]

\* the final assistant message is written without the answer's text
FinalMessageNoContent(final_content) == [role |-> "assistant", content |-> None]

\* the final assistant message
FinalMessage(final_content) == [role |-> "assistant", content |-> final_content]

(***************************************************************************)
(* What the gateway may answer.                                            *)
(***************************************************************************)
\* text the model may put beside its tool calls
Thought == "I will look the date up."

RequestKinds == [name : RequestNames, arguments : Arguments]

Min(a, b) == IF a < b THEN a ELSE b

RECURSIVE SumSeq(_)
SumSeq(q) == IF q = <<>> THEN 0 ELSE q[1] + SumSeq(Tail(q))

KindCost(k) ==
    (IF k.name = "get_name_for_day" THEN 0 ELSE 1)
    + (IF k.arguments = ArgsGood THEN 0 ELSE 1)

ResponseCost(content, kinds) ==
    (Len(kinds) - 1) + SumSeq([i \in 1..Len(kinds) |-> KindCost(kinds[i])])
    + (IF content = None THEN 0 ELSE 1)

\* the tool-calling responses that cost at most budget deviations
ToolCallResponses(budget) ==
    {r \in [content : {None, Thought},
            kinds : UNION {[1..n -> RequestKinds] :
                             n \in 1..Min(MaxCalls, budget + 1)}] :
        ResponseCost(r.content, r.kinds) <= budget}

\* the response's tool_calls: the gateway gives each call a fresh identifier
ResponseCalls(kinds, first_id) ==
    [k \in 1..Len(kinds) |->
        [id |-> first_id + k - 1,
         function |-> [name |-> kinds[k].name,
                       arguments |-> kinds[k].arguments]]]

HttpCost(http) == IF http = "200" THEN 0 ELSE 1

(***************************************************************************)
(* State.                                                                  *)
(***************************************************************************)
VARIABLES
    messages,      \* the list run was given, mutated in place
    iteration,     \* the local counter of run
    pc,            \* where run is: "while", "create", "for", or where it
                   \* left: "final" (line 202), "limit" (line 205), "raised"
    tool_calls,    \* response_message.tool_calls of the current response
    idx,           \* position of the for loop in tool_calls
    result,        \* the value run returned
    raised,        \* the exception that left run
    initial,       \* the list as the caller handed it over
    gatewayCalls,  \* calls of client.chat.completions.create so far
    executed,      \* identifiers of the calls whose function was invoked
    responses,     \* the messages the gateway answered, in order
    nextId,        \* the gateway's next fresh call identifier
    deviations,    \* departures from the plain turn so far
    messages1,     \* the list of main (messages1, line 214)
    active,        \* the run whose locals the variables above hold
    parked         \* the locals of the other run, when two runs interleave

vars ==
    <<messages, iteration, pc, tool_calls, idx, result, raised, initial,
      gatewayCalls, executed, responses, nextId, deviations, messages1,
      active, parked>>

NoResult == "NoResult"
NoException == "NoException"

\* no second run
NoRun == [pc |-> "NoRun"]

\* main hands run its list itself: agent.run(messages1)
CopyNotPassed == FALSE

\* main hands run a copy of its list: agent.run(messages1.copy())
CopyPassed == TRUE

Init ==
    /\ messages1 \in InitialTranscripts
    /\ messages = messages1
    /\ active = 1
    /\ parked = NoRun
    /\ initial = messages
    /\ iteration = 0
    /\ pc = "while"
    /\ tool_calls = <<>>
    /\ idx = 0
    /\ result = NoResult
    /\ raised = NoException
    /\ gatewayCalls = 0
    /\ executed = <<>>
    /\ responses = <<>>
    /\ nextId = 1
    /\ deviations = 0

(***************************************************************************)
(* run, lines 128-205.                                                     *)
(***************************************************************************)
\* while iteration < self.max_iterations
LoopCondition(it) == it < max_iterations

\* lines 130-141: the loop is entered and the gateway is called
CallGateway ==
    /\ pc = "while"
    /\ LoopCondition(iteration)
    /\ iteration' = iteration + 1
    /\ gatewayCalls' = gatewayCalls + 1
    /\ pc' = "create"
    /\ UNCHANGED <<messages, tool_calls, idx, result, raised, initial,
                   executed, responses, nextId, deviations>>

\* the failure is caught and the loop tries again
GatewayRaisesRetried ==
    /\ pc = "create"
    /\ pc' = "while"
    /\ raised' = "GatewayError"
    /\ UNCHANGED <<messages, iteration, tool_calls, idx, result, initial,
                   gatewayCalls, executed, responses, nextId, deviations>>

\* line 135: create raises; nothing in run catches it
GatewayRaises ==
    /\ pc = "create"
    /\ pc' = "raised"
    /\ raised' = "GatewayError"
    /\ UNCHANGED <<messages, iteration, tool_calls, idx, result, initial,
                   gatewayCalls, executed, responses, nextId, deviations>>

\* only the first call of the response is processed
OnlyFirstCall(calls) == <<calls[1]>>

\* for tool_call in response_message.tool_calls: the calls the loop walks
CallsToProcess(calls) == calls

\* lines 147-165: the response carries tool calls
ToolCallsResponse ==
    /\ pc = "create"
    /\ \E r \in ToolCallResponses(MaxDeviations - deviations) :
         LET calls == ResponseCalls(r.kinds, nextId) IN
           /\ messages' = Append(messages, AssistantCallMessage(r.content, calls))
           /\ tool_calls' = CallsToProcess(calls)
           /\ responses' =
                Append(responses, [content |-> r.content, tool_calls |-> calls])
           /\ nextId' = nextId + Len(calls)
           /\ deviations' = deviations + ResponseCost(r.content, r.kinds)
    /\ idx' = 1
    /\ pc' = "for"
    /\ UNCHANGED <<iteration, result, raised, initial, gatewayCalls, executed>>

\* every tool message is tagged with the identifier of the first call of
\* the response (response_message.tool_calls[0].id)
ToolMessageFirstId(tool_id, function_name, function_response) ==
    [role |-> "tool", tool_call_id |-> tool_calls[1].id,
     name |-> function_name, content |-> json_dumps(function_response)]

\* the tool message that carries one function response
ToolMessage(tool_id, function_name, function_response) ==
    [role |-> "tool", tool_call_id |-> tool_id, name |-> function_name,
     content |-> json_dumps(function_response)]

\* where the run goes after the body of the for loop at position i
AfterCall(i) == IF i < Len(tool_calls) THEN "for" ELSE "while"

\* lines 168-189: one pass of the for loop
ExecuteToolCall ==
    /\ pc = "for"
    /\ LET tool_call == tool_calls[idx]
           function_name == tool_call.function.name
           decoded == json_loads(tool_call.function.arguments)
           tool_id == tool_call.id
       IN
         IF decoded.raised
         THEN \* line 170 raises
              /\ pc' = "raised"
              /\ raised' = decoded.value
              /\ UNCHANGED <<messages, idx, executed, deviations>>
         ELSE IF function_name \notin available_functions
         THEN \* line 176 raises
              /\ pc' = "raised"
              /\ raised' = "KeyError"
              /\ UNCHANGED <<messages, idx, executed, deviations>>
         ELSE \E http \in HttpOutcomes :
              LET function_response ==
                      CallFunction(function_name, decoded.value, http)
              IN
                /\ deviations + HttpCost(http) <= MaxDeviations
                /\ deviations' = deviations + HttpCost(http)
                /\ executed' = Append(executed, tool_id)
                /\ IF function_response.raised
                   THEN \* line 177 raises
                        /\ pc' = "raised"
                        /\ raised' = function_response.value
                        /\ UNCHANGED <<messages, idx>>
                   ELSE /\ messages' =
                             Append(messages,
                                    ToolMessage(tool_id, function_name,
                                                function_response.value))
                        /\ idx' = idx + 1
                        /\ pc' = AfterCall(idx)
                        /\ UNCHANGED raised
    /\ UNCHANGED <<iteration, tool_calls, result, initial, gatewayCalls,
                   responses, nextId>>

\* the final message is appended but the return is missing: the loop goes on
TextResponseNoReturn ==
    /\ pc = "create"
    /\ \E final_content \in Texts \cup {None} :
         /\ messages' = Append(messages, FinalMessage(final_content))
         /\ responses' =
              Append(responses, [content |-> final_content, tool_calls |-> <<>>])
    /\ pc' = "while"
    /\ UNCHANGED <<iteration, tool_calls, idx, result, raised, initial,
                   gatewayCalls, executed, nextId, deviations>>

\* the final message is written over the last message (messages[-1] = ...)
TextResponseOverwrites ==
    /\ pc = "create"
    /\ \E final_content \in Texts \cup {None} :
         /\ messages' =
              [messages EXCEPT ![Len(messages)] = FinalMessage(final_content)]
         /\ result' = final_content
         /\ responses' =
              Append(responses, [content |-> final_content, tool_calls |-> <<>>])
    /\ pc' = "final"
    /\ UNCHANGED <<iteration, tool_calls, idx, raised, initial, gatewayCalls,
                   executed, nextId, deviations>>

\* lines 194-202: the response carries no tool calls
TextResponse ==
    /\ pc = "create"
    /\ \E final_content \in Texts \cup {None} :
         /\ messages' = Append(messages, FinalMessage(final_content))
         /\ result' = final_content
         /\ responses' =
              Append(responses, [content |-> final_content, tool_calls |-> <<>>])
    /\ pc' = "final"
    /\ UNCHANGED <<iteration, tool_calls, idx, raised, initial, gatewayCalls,
                   executed, nextId, deviations>>

\* the code after the loop spins instead of returning
ReturnLimitSpins ==
    /\ pc = "while"
    /\ ~LoopCondition(iteration)
    /\ UNCHANGED vars

\* line 205: the while loop ran out
ReturnLimit ==
    /\ pc = "while"
    /\ ~LoopCondition(iteration)
    /\ result' = LimitMessage
    /\ pc' = "limit"
    /\ UNCHANGED <<messages, iteration, tool_calls, idx, raised, initial,
                   gatewayCalls, executed, responses, nextId, deviations>>

\* what a step of run leaves alone: the other run's locals; and main's
\* list, which is another list object than the copy run appends to
Frame ==
    /\ UNCHANGED <<active, parked>>
    /\ messages1' = IF CopyPassed THEN messages1 ELSE messages'

Next ==
    \/ CallGateway /\ Frame
    \/ GatewayRaises /\ Frame
    \/ ToolCallsResponse /\ Frame
    \/ ExecuteToolCall /\ Frame
    \/ TextResponse /\ Frame
    \/ ReturnLimit /\ Frame

Spec == Init /\ [][Next]_vars

\* the interpreter keeps running the loop; the gateway call and each lookup
\* return or raise
FairSpec == Spec /\ WF_vars(Next)

\* run has left: a value was returned or an exception propagated
Terminated == pc \in {"final", "limit", "raised"}

TypeOK ==
    /\ iteration \in 0..max_iterations
    /\ pc \in {"while", "create", "for", "final", "limit", "raised"}
    /\ gatewayCalls \in Nat
    /\ deviations \in 0..MaxDeviations

(***************************************************************************)
(* Two calls of run on one ReactAgent, each with a list of its own, their  *)
(* steps interleaved.  messages, iteration and the loop's other names are  *)
(* locals of the call; the agent object holds only client and              *)
(* max_iterations, which run reads.  The variables hold the locals of the  *)
(* call that is running, parked those of the other one.  The two calls     *)
(* share the gateway and the lookup service, which depart from the plain   *)
(* turn at most once between them.                                         *)
(***************************************************************************)
UserMessage2 ==
    [role |-> "user",
     content |-> "Zjisti mi detalni informace o dnech 3. ledna 2024 a 3. ledna 2012?"]

\* the lists of main: messages1 and messages2
MainList(r) ==
    IF r = 1 THEN <<SystemMessage, UserMessage>>
             ELSE <<SystemMessage, UserMessage2>>

\* the gateway's identifiers are unique: those it gives the second call of
\* run come from another range than those of the first
SecondRunFirstId == 101

\* the locals of the call that is running
Locals ==
    [messages |-> messages, iteration |-> iteration, pc |-> pc,
     tool_calls |-> tool_calls, idx |-> idx, result |-> result,
     raised |-> raised, initial |-> initial, gatewayCalls |-> gatewayCalls,
     executed |-> executed, responses |-> responses, nextId |-> nextId]

\* the locals of call r of run
RunView(r) == IF active = r THEN Locals ELSE parked

TwoInit ==
    /\ messages1 = MainList(1)
    /\ messages = MainList(1)
    /\ active = 1
    /\ initial = messages
    /\ iteration = 0
    /\ pc = "while"
    /\ tool_calls = <<>>
    /\ idx = 0
    /\ result = NoResult
    /\ raised = NoException
    /\ gatewayCalls = 0
    /\ executed = <<>>
    /\ responses = <<>>
    /\ nextId = 1
    /\ deviations = MaxDeviations - 1
    /\ parked = [messages |-> MainList(2), iteration |-> 0, pc |-> "while",
                 tool_calls |-> <<>>, idx |-> 0, result |-> NoResult,
                 raised |-> NoException, initial |-> MainList(2),
                 gatewayCalls |-> 0, executed |-> <<>>, responses |-> <<>>,
                 nextId |-> SecondRunFirstId]

\* were iteration a field of the agent (self.iteration), both calls would
\* count on it
SwitchSharedIteration ==
    /\ parked.pc \notin {"final", "limit", "raised", "NoRun"}
    /\ active' = 3 - active
    /\ parked' = Locals
    /\ messages' = parked.messages
    /\ UNCHANGED iteration
    /\ pc' = parked.pc
    /\ tool_calls' = parked.tool_calls
    /\ idx' = parked.idx
    /\ result' = parked.result
    /\ raised' = parked.raised
    /\ initial' = parked.initial
    /\ gatewayCalls' = parked.gatewayCalls
    /\ executed' = parked.executed
    /\ responses' = parked.responses
    /\ nextId' = parked.nextId
    /\ UNCHANGED <<deviations, messages1>>

\* the interpreter leaves the running call and resumes the other one, which
\* has not ended, where it stood
Switch ==
    /\ parked.pc \notin {"final", "limit", "raised", "NoRun"}
    /\ active' = 3 - active
    /\ parked' = Locals
    /\ messages' = parked.messages
    /\ iteration' = parked.iteration
    /\ pc' = parked.pc
    /\ tool_calls' = parked.tool_calls
    /\ idx' = parked.idx
    /\ result' = parked.result
    /\ raised' = parked.raised
    /\ initial' = parked.initial
    /\ gatewayCalls' = parked.gatewayCalls
    /\ executed' = parked.executed
    /\ responses' = parked.responses
    /\ nextId' = parked.nextId
    /\ UNCHANGED <<deviations, messages1>>

TwoNext ==
    \/ CallGateway /\ Frame
    \/ GatewayRaises /\ Frame
    \/ ToolCallsResponse /\ Frame
    \/ ExecuteToolCall /\ Frame
    \/ TextResponse /\ Frame
    \/ ReturnLimit /\ Frame
    \/ Switch

TwoSpec == TwoInit /\ [][TwoNext]_vars

(***************************************************************************)
(* get_completion_from_messages of chat_with_pure_tool.py, lines 53-112:   *)
(* one gateway call, at most one tool execution, a second gateway call.    *)
(* pc is "enter", "first" (line 54 in flight), "tool" (lines 67-98),       *)
(* "second" (line 101 in flight), "returned" or "raised".                  *)
(***************************************************************************)
\* the keys of the dict available_functions of chat_with_pure_tool.py
pure_available_functions == {"get_name_for_day"}

\* tool_call = response_message.tool_calls[0]
FirstToolCall(calls) == calls[1]

\* lines 80-92: the assistant message, with no "content" key and the
\* arguments encoded again from the decoded ones
PureAssistantMessage(tool_id, function_name, function_args) ==
    [role |-> "assistant",
     tool_calls |-> <<[id |-> tool_id, type |-> "function",
                       function |-> [name |-> function_name,
                                     arguments |-> json_dumps(function_args)]]>>]

PureInit ==
    /\ messages \in InitialTranscripts
    /\ messages1 = messages
    /\ initial = messages
    /\ active = 1
    /\ parked = NoRun
    /\ iteration = 0
    /\ pc = "enter"
    /\ tool_calls = <<>>
    /\ idx = 0
    /\ result = NoResult
    /\ raised = NoException
    /\ gatewayCalls = 0
    /\ executed = <<>>
    /\ responses = <<>>
    /\ nextId = 1
    /\ deviations = 0

\* what the function has no name for
PureFrame == UNCHANGED <<iteration, idx, initial, messages1, active, parked>>

\* line 54: the first call is issued
PureFirstCreate ==
    /\ pc = "enter"
    /\ gatewayCalls' = gatewayCalls + 1
    /\ pc' = "first"
    /\ PureFrame
    /\ UNCHANGED <<messages, tool_calls, result, raised, executed, responses,
                   nextId, deviations>>

\* line 54 or line 101: create raises; nothing catches it
PureGatewayRaises ==
    /\ pc \in {"first", "second"}
    /\ pc' = "raised"
    /\ raised' = "GatewayError"
    /\ PureFrame
    /\ UNCHANGED <<messages, tool_calls, result, gatewayCalls, executed,
                   responses, nextId, deviations>>

\* line 112: the first response has no tool calls and is returned
PureTextResponse ==
    /\ pc = "first"
    /\ \E content \in Texts \cup {None} :
         LET response_message == [content |-> content, tool_calls |-> <<>>] IN
           /\ responses' = Append(responses, response_message)
           /\ result' = response_message
    /\ pc' = "returned"
    /\ PureFrame
    /\ UNCHANGED <<messages, tool_calls, raised, gatewayCalls, executed,
                   nextId, deviations>>

\* line 65: the first response carries tool calls
PureToolCallsResponse ==
    /\ pc = "first"
    /\ \E r \in ToolCallResponses(MaxDeviations - deviations) :
         LET calls == ResponseCalls(r.kinds, nextId) IN
           /\ tool_calls' = calls
           /\ responses' =
                Append(responses, [content |-> r.content, tool_calls |-> calls])
           /\ nextId' = nextId + Len(calls)
           /\ deviations' = deviations + ResponseCost(r.content, r.kinds)
    /\ pc' = "tool"
    /\ PureFrame
    /\ UNCHANGED <<messages, result, raised, gatewayCalls, executed>>

\* lines 67-101: the first call is decoded, looked up and run, the two
\* messages are appended and the second gateway call is issued
PureExecuteToolCall ==
    /\ pc = "tool"
    /\ LET tool_call == FirstToolCall(tool_calls)
           function_name == tool_call.function.name
           decoded == json_loads(tool_call.function.arguments)
           tool_id == tool_call.id
       IN
         IF decoded.raised
         THEN \* line 71 raises
              /\ pc' = "raised"
              /\ raised' = decoded.value
              /\ UNCHANGED <<messages, executed, deviations, gatewayCalls>>
         ELSE IF function_name \notin pure_available_functions
         THEN \* line 75 raises
              /\ pc' = "raised"
              /\ raised' = "KeyError"
              /\ UNCHANGED <<messages, executed, deviations, gatewayCalls>>
         ELSE \E http \in HttpOutcomes :
              LET function_response ==
                      get_name_for_day(decoded.value.date, http)
              IN
                /\ deviations + HttpCost(http) <= MaxDeviations
                /\ deviations' = deviations + HttpCost(http)
                /\ executed' = Append(executed, tool_id)
                /\ IF function_response.raised
                   THEN \* line 76 raises
                        /\ pc' = "raised"
                        /\ raised' = function_response.value
                        /\ UNCHANGED <<messages, gatewayCalls>>
                   ELSE /\ messages' =
                             messages \o
                             <<PureAssistantMessage(tool_id, function_name,
                                                    decoded.value),
                               ToolMessage(tool_id, function_name,
                                           function_response.value)>>
                        /\ gatewayCalls' = gatewayCalls + 1
                        /\ pc' = "second"
                        /\ UNCHANGED raised
    /\ PureFrame
    /\ UNCHANGED <<tool_calls, result, responses, nextId>>

\* lines 107-110: the second response is returned as it is, whether text or
\* tool calls
PureSecondResponse ==
    /\ pc = "second"
    /\ \/ \E content \in Texts \cup {None} :
            LET final_answer == [content |-> content, tool_calls |-> <<>>] IN
              /\ responses' = Append(responses, final_answer)
              /\ result' = final_answer
              /\ UNCHANGED <<nextId, deviations>>
       \/ \E r \in ToolCallResponses(MaxDeviations - deviations) :
            LET final_answer ==
                    [content |-> r.content,
                     tool_calls |-> ResponseCalls(r.kinds, nextId)]
            IN
              /\ responses' = Append(responses, final_answer)
              /\ result' = final_answer
              /\ nextId' = nextId + Len(r.kinds)
              /\ deviations' = deviations + ResponseCost(r.content, r.kinds)
    /\ pc' = "returned"
    /\ PureFrame
    /\ UNCHANGED <<messages, tool_calls, raised, gatewayCalls, executed>>

PureNext ==
    \/ PureFirstCreate
    \/ PureGatewayRaises
    \/ PureTextResponse
    \/ PureToolCallsResponse
    \/ PureExecuteToolCall
    \/ PureSecondResponse

PureSpec == PureInit /\ [][PureNext]_vars

\* get_completion_from_messages has left
PureTerminated == pc \in {"returned", "raised"}

(***************************************************************************)
(* Reading the transcript and the gateway's answers.                       *)
(***************************************************************************)
HasToolCalls(m) == m.role = "assistant" /\ "tool_calls" \in DOMAIN m

IsToolMessage(m) == m.role = "tool"

\* the positions of the tool messages of a list
ToolMessagesIn(list) == {j \in 1..Len(list) : IsToolMessage(list[j])}

\* the latest answer of the gateway
LastResponse == responses[Len(responses)]

\* the for loop has begun its pass over call k of answer i
Reached(i, k) ==
    \/ i < Len(responses)
    \/ i = Len(responses) /\ (k < idx \/ (k = idx /\ pc # "for"))

\* what the caller of run receives
Outcome ==
    IF pc = "raised"
    THEN [kind |-> "raise", value |-> raised]
    ELSE [kind |-> "return", value |-> result]

(***************************************************************************)
(* C1: under FairSpec every run of ReactAgent.run, whatever the initial    *)
(* transcript and whatever the gateway answers, eventually leaves the loop *)
(* (a value returned or an exception raised); it never loops forever.      *)
(***************************************************************************)
C1_Terminates == <>Terminated

\* the gateway asked for a tool on every answer and the run still ended
C1_Witness ==
    /\ pc = "limit"
    /\ Len(responses) = max_iterations
    /\ \A i \in 1..Len(responses) : responses[i].tool_calls # <<>>

(***************************************************************************)
(* C2 (as claimed): the gateway is called at most max_iterations times,    *)
(* and a run whose max_iterations-th answer still carries tool calls ends  *)
(* in the iteration-limit failure, with no further gateway call.           *)
(***************************************************************************)
C2_Claim ==
    /\ gatewayCalls <= max_iterations
    /\ (/\ Terminated
        /\ Len(responses) = max_iterations
        /\ LastResponse.tool_calls # <<>>)
       => (pc = "limit" /\ gatewayCalls = max_iterations)

(***************************************************************************)
(* C3: if the first answer of the gateway carries text and no tool call,   *)
(* run returns exactly that text, after one gateway call and without       *)
(* invoking any tool function.                                             *)
(***************************************************************************)
C3_TextOnlyFirst ==
    (/\ Len(responses) >= 1
     /\ responses[1].tool_calls = <<>>
     /\ responses[1].content \in Texts)
    => /\ pc = "final"
       /\ Outcome = [kind |-> "return", value |-> responses[1].content]
       /\ gatewayCalls = 1
       /\ executed = <<>>

C3_Witness ==
    /\ pc = "final"
    /\ Len(responses) = 1
    /\ responses[1].content \in Texts
    /\ result = responses[1].content

(***************************************************************************)
(* C4 (as claimed): once the run is through with an answer that carries    *)
(* n >= 1 tool calls, all n functions were invoked, in the order of the    *)
(* answer, and the transcript ends with the assistant message that records *)
(* the calls followed by exactly n tool messages, the k-th carrying the    *)
(* identifier of the k-th call.                                            *)
(***************************************************************************)
C4_Claim ==
    (pc # "for" /\ Len(responses) >= 1 /\ LastResponse.tool_calls # <<>>)
    => LET calls == LastResponse.tool_calls
           n == Len(calls)
           m == Len(messages)
           e == Len(executed)
       IN /\ m >= n + 1
          /\ HasToolCalls(messages[m - n])
          /\ Len(messages[m - n].tool_calls) = n
          /\ \A k \in 1..n :
               /\ messages[m - n].tool_calls[k].id = calls[k].id
               /\ IsToolMessage(messages[m - n + k])
               /\ messages[m - n + k].tool_call_id = calls[k].id
          /\ e >= n
          /\ \A k \in 1..n : executed[e - n + k] = calls[k].id

(***************************************************************************)
(* C5 (as claimed): a request for a tool name that is not in               *)
(* available_functions does not abort the run: once the for loop has       *)
(* reached it, the transcript holds a tool message with the request's      *)
(* identifier and an error payload, and no KeyError has left run.          *)
(***************************************************************************)
\* the payloads of lookups that succeeded
SuccessPayloads ==
    {json_dumps(get_name_for_day(Date, "200").value),
     json_dumps(get_all_info_about_day(Date, "200").value)}

C5_Claim ==
    \A i \in 1..Len(responses) :
      \A k \in 1..Len(responses[i].tool_calls) :
        LET call == responses[i].tool_calls[k] IN
          (call.function.name \notin available_functions /\ Reached(i, k))
          => /\ raised # "KeyError"
             /\ \E j \in 1..Len(messages) :
                  /\ IsToolMessage(messages[j])
                  /\ messages[j].tool_call_id = call.id
                  /\ messages[j].content \notin SuccessPayloads

(***************************************************************************)
(* C6: a gateway call that fails ends the run at once: in the step that    *)
(* raises the failure and in every step after it, no gateway call is made, *)
(* no tool function is invoked, nothing is appended to the transcript, and *)
(* the run has left with the failure.                                      *)
(***************************************************************************)
C6_GatewayFailureIsFinal ==
    [][raised' = "GatewayError"
         => /\ pc' = "raised"
            /\ messages' = messages
            /\ executed' = executed
            /\ gatewayCalls' = gatewayCalls]_vars

\* the gateway failed on a call that followed a turn of tool calls
C6_Witness ==
    /\ pc = "raised"
    /\ raised = "GatewayError"
    /\ gatewayCalls = 2
    /\ Len(executed) >= 1

(***************************************************************************)
(* C7 (as claimed): when the loop runs out, what the caller receives       *)
(* differs from what it receives for every final answer of the model.      *)
(***************************************************************************)
\* what the caller receives when the model's final answer is t
FinalAnswerOutcomes == {[kind |-> "return", value |-> t] : t \in Texts \cup {None}}

C7_Claim == pc = "limit" => Outcome \notin FinalAnswerOutcomes

(***************************************************************************)
(* C8: every tool message the run appends carries an identifier that       *)
(* exactly one tool call recorded in an earlier assistant message carries, *)
(* and that call has no tool message yet when the message is appended;     *)
(* the messages already in the transcript stay as they are, so this holds  *)
(* of every tool message of every reachable transcript.                    *)
(***************************************************************************)
\* the places (message, position) of the transcript that record the id
RecordedPlaces(id) ==
    {p \in {i \in 1..Len(messages) : HasToolCalls(messages[i])} \X (1..MaxCalls) :
        /\ p[2] <= Len(messages[p[1]].tool_calls)
        /\ messages[p[1]].tool_calls[p[2]].id = id}

\* the tool messages of the transcript that carry the id
ToolMessagesOf(id) ==
    {h \in 1..Len(messages) :
        IsToolMessage(messages[h]) /\ messages[h].tool_call_id = id}

NoUnresolvedRequest ==
    \A i \in 1..Len(messages) :
      HasToolCalls(messages[i])
      => \A k \in 1..Len(messages[i].tool_calls) :
           \E j \in (i + 1)..Len(messages) :
             /\ IsToolMessage(messages[j])
             /\ messages[j].tool_call_id = messages[i].tool_calls[k].id

C9_Claim == (pc = "create" \/ Terminated) => NoUnresolvedRequest

(***************************************************************************)
(* C10: a run that got k answers with n_1..n_k tool calls and then a       *)
(* text-only answer returns that text, and its transcript has length       *)
(* L + sum(1 + n_i) + 1, L being the length of the initial transcript;     *)
(* for L = 2 and one answer with one call the length is 5: system, user,   *)
(* assistant with the call, tool result, final assistant.                  *)
(***************************************************************************)
\* 1 + n_i for each answer before the last
TurnLengths ==
    [i \in 1..(Len(responses) - 1) |-> 1 + Len(responses[i].tool_calls)]

C10_FinalTranscriptLength ==
    pc = "final"
    => /\ Outcome = [kind |-> "return", value |-> LastResponse.content]
       /\ LastResponse.tool_calls = <<>>
       /\ Len(messages) = Len(initial) + SumSeq(TurnLengths) + 1
       /\ (Len(initial) = 2 /\ TurnLengths = <<2>>)
          => /\ Len(messages) = 5
             /\ [i \in 1..5 |-> messages[i].role]
                  = <<"system", "user", "assistant", "tool", "assistant">>
             /\ HasToolCalls(messages[3])
             /\ ~HasToolCalls(messages[5])

\* the scenario of main's first call: one get_name_for_day call, then text
C10_Witness ==
    /\ pc = "final"
    /\ Len(initial) = 2
    /\ Len(responses) = 2
    /\ Len(responses[1].tool_calls) = 1
    /\ responses[1].tool_calls[1].function.name = "get_name_for_day"
    /\ result \in Texts
    /\ Len(messages) = 5

(***************************************************************************)
(* C11 (as claimed): an argument payload that json.loads cannot decode is  *)
(* a per-call error: once the for loop has reached such a call, the        *)
(* transcript holds a tool message with the call's identifier and an error *)
(* payload, and no JSONDecodeError has left run.                           *)
(***************************************************************************)
\* the transcript holds an error-carrying tool message for the identifier
HasErrorToolMessage(id) ==
    \E j \in 1..Len(messages) :
      /\ IsToolMessage(messages[j])
      /\ messages[j].tool_call_id = id
      /\ messages[j].content \notin SuccessPayloads

C11_Claim ==
    \A i \in 1..Len(responses) :
      \A k \in 1..Len(responses[i].tool_calls) :
        LET call == responses[i].tool_calls[k] IN
          (json_loads(call.function.arguments).raised /\ Reached(i, k))
          => (raised # "JSONDecodeError" /\ HasErrorToolMessage(call.id))

(***************************************************************************)
(* C12 (as claimed): a registered function whose execution fails (the      *)
(* lookup answers another status than 200, or the call raises) leaves an   *)
(* error-carrying tool message for its call and never raises out of run:   *)
(* every call whose function was invoked has its tool message, and no      *)
(* exception of a tool function has left run.                              *)
(***************************************************************************)
\* what the tool functions may raise
ToolExceptions == {"ConnectionError", "AttributeError"}

C12_Claim ==
    /\ raised \notin ToolExceptions
    /\ \A k \in 1..Len(executed) :
         \E j \in 1..Len(messages) :
           /\ IsToolMessage(messages[j])
           /\ messages[j].tool_call_id = executed[k]

(***************************************************************************)
(* C13: for every answer of the gateway that carries tool calls, run       *)
(* appends exactly one assistant message, in the step that takes the       *)
(* answer and so before any tool message of the turn; it records every     *)
(* call of the answer (id, name and arguments unchanged, in the answer's   *)
(* order) and the answer's text; while the calls of the turn are processed *)
(* only tool messages are appended.                                        *)
(***************************************************************************)
C13_OneAssistantMessagePerTurn ==
    [][/\ (/\ Len(responses') = Len(responses) + 1
           /\ responses'[Len(responses')].tool_calls # <<>>)
          => LET resp == responses'[Len(responses')]
                 m == messages'[Len(messages')]
             IN /\ Len(messages') = Len(messages) + 1
                /\ SubSeq(messages', 1, Len(messages)) = messages
                /\ m.role = "assistant"
                /\ m.content = resp.content
                /\ "tool_calls" \in DOMAIN m
                /\ Len(m.tool_calls) = Len(resp.tool_calls)
                /\ \A k \in 1..Len(resp.tool_calls) :
                     /\ m.tool_calls[k].id = resp.tool_calls[k].id
                     /\ m.tool_calls[k].function.name
                          = resp.tool_calls[k].function.name
                     /\ m.tool_calls[k].function.arguments
                          = resp.tool_calls[k].function.arguments
       /\ responses' = responses
          => \A j \in (Len(messages) + 1)..Len(messages') :
               IsToolMessage(messages'[j])]_vars

\* a turn of two calls with text beside them, recorded and processed
C13_Witness ==
    /\ pc = "while"
    /\ Len(responses) >= 1
    /\ LastResponse.content = Thought
    /\ Len(LastResponse.tool_calls) = 2
    /\ messages[Len(messages) - 2].content = Thought

(***************************************************************************)
(* C14 (as claimed): run follows the state machine AwaitingModel,          *)
(* ExecutingTools, Done, Failed: its steps stay in AwaitingModel or in     *)
(* ExecutingTools or go AwaitingModel -> ExecutingTools, ExecutingTools -> *)
(* AwaitingModel, AwaitingModel -> Done, AwaitingModel -> Failed; no step  *)
(* leaves Done or Failed, and Failed is never entered from ExecutingTools. *)
(***************************************************************************)
\* the state of the spec's state machine the run is in
RunState ==
    CASE pc \in {"while", "create"} -> "AwaitingModel"
      [] pc = "for" -> "ExecutingTools"
      [] pc = "final" -> "Done"
      [] OTHER -> "Failed"

AllowedTransitions ==
    {<<"AwaitingModel", "AwaitingModel">>,
     <<"ExecutingTools", "ExecutingTools">>,
     <<"AwaitingModel", "ExecutingTools">>,
     <<"ExecutingTools", "AwaitingModel">>,
     <<"AwaitingModel", "Done">>,
     <<"AwaitingModel", "Failed">>}

C14_Claim == [][(<<RunState, RunState'>> \in AllowedTransitions)]_vars

(***************************************************************************)
(* C15: run returns a final answer only in the step that takes an answer   *)
(* of the gateway without tool calls; that step appends one assistant      *)
(* message without tool calls as the last entry of the transcript, and the *)
(* value returned is the content of that message, the text of the answer.  *)
(***************************************************************************)
C15_SoleNormalExit ==
    [][pc' = "final"
         => LET m == messages'[Len(messages')] IN
              /\ pc = "create"
              /\ Len(responses') = Len(responses) + 1
              /\ responses'[Len(responses')].tool_calls = <<>>
              /\ Len(messages') = Len(messages) + 1
              /\ SubSeq(messages', 1, Len(messages)) = messages
              /\ m.role = "assistant"
              /\ "tool_calls" \notin DOMAIN m
              /\ m.content = responses'[Len(responses')].content
              /\ result' = m.content]_vars

\* a final answer after a turn of tool calls
C15_Witness ==
    /\ pc = "final"
    /\ Len(responses) >= 2
    /\ result \in Texts
    /\ messages[Len(messages)] = [role |-> "assistant", content |-> result]

(***************************************************************************)
(* C16: the transcript is append-only during a run: in every step the      *)
(* transcript before the step is a prefix of the transcript after it, so   *)
(* no message is removed, reordered or modified, the messages the caller   *)
(* supplied included.                                                      *)
(***************************************************************************)
C16_AppendOnly ==
    [][/\ Len(messages') >= Len(messages)
       /\ SubSeq(messages', 1, Len(messages)) = messages
       /\ SubSeq(messages', 1, Len(initial)) = initial]_vars

\* the run appended an assistant message, tool messages and a final message
C16_Witness ==
    /\ pc = "final"
    /\ Len(messages) >= Len(initial) + 4
    /\ SubSeq(messages, 1, Len(initial)) = initial

(***************************************************************************)
(* C17 (as claimed): every tool call the gateway emitted during a run is   *)
(* executed exactly once over the whole run: its function is never invoked *)
(* twice, and when the run has ended it was invoked once.                  *)
(***************************************************************************)
\* how many times the function of the call with this identifier was invoked
TimesExecuted(id) == Cardinality({k \in 1..Len(executed) : executed[k] = id})

C17_Claim ==
    \A i \in 1..Len(responses) :
      \A k \in 1..Len(responses[i].tool_calls) :
        /\ TimesExecuted(responses[i].tool_calls[k].id) <= 1
        /\ Terminated => TimesExecuted(responses[i].tool_calls[k].id) = 1

(***************************************************************************)
(* C19: run appends to the list object it is given, so a caller that       *)
(* hands over a copy of its list, as main does, keeps its own list as it   *)
(* was (same length, same entries) in every state of the run and whatever  *)
(* its outcome, while the list run was given starts with those entries and *)
(* holds everything the run appended.                                      *)
(***************************************************************************)
C19_CallerListUnchanged ==
    /\ messages1 = initial
    /\ Len(messages) >= Len(messages1)
    /\ SubSeq(messages, 1, Len(messages1)) = messages1
    /\ Terminated
       => Len(messages) - Len(messages1)
            = Len(responses) + Cardinality(ToolMessagesIn(messages))

\* a run that appended messages has ended, returning or raising
C19_Witness ==
    /\ pc \in {"final", "raised"}
    /\ Len(messages) > Len(messages1)
    /\ messages1 = initial

(***************************************************************************)
(* C18: iteration and messages are locals of a call of run, so two calls   *)
(* on the same agent that are each given a list of their own do not        *)
(* interfere, however their steps interleave: each call's list keeps that  *)
(* call's initial entries and gains only the messages of that call's own   *)
(* gateway answers and tool executions, and each call's iteration counts   *)
(* that call's own gateway calls, is at most max_iterations, and reaches   *)
(* the limit only through max_iterations gateway calls of its own.         *)
(***************************************************************************)
\* the identifiers of the requests the gateway sent to a call of run
OwnIds(v) ==
    UNION {{v.responses[i].tool_calls[k].id :
              k \in 1..Len(v.responses[i].tool_calls)} :
           i \in 1..Len(v.responses)}

C18_RunsDoNotInterfere ==
    \A r \in {1, 2} :
      LET v == RunView(r)
          o == RunView(3 - r)
      IN /\ v.iteration = v.gatewayCalls
         /\ v.iteration <= max_iterations
         /\ v.pc = "limit" => v.gatewayCalls = max_iterations
         /\ v.initial = MainList(r)
         /\ SubSeq(v.messages, 1, Len(v.initial)) = v.initial
         /\ Len(v.messages)
              <= Len(v.initial) + Len(v.responses) + Len(v.executed)
         /\ OwnIds(v) \cap OwnIds(o) = {}
         /\ \A j \in (Len(v.initial) + 1)..Len(v.messages) :
              LET m == v.messages[j] IN
                CASE IsToolMessage(m) ->
                       /\ m.tool_call_id \in OwnIds(v)
                       /\ \E k \in 1..Len(v.executed) :
                            v.executed[k] = m.tool_call_id
                  [] HasToolCalls(m) ->
                       \E i \in 1..Len(v.responses) :
                         /\ m.content = v.responses[i].content
                         /\ Len(m.tool_calls) = Len(v.responses[i].tool_calls)
                         /\ \A k \in 1..Len(m.tool_calls) :
                              m.tool_calls[k] =
                                RecordedCall(v.responses[i].tool_calls[k])
                  [] OTHER ->
                       /\ j = Len(v.messages)
                       /\ v.pc = "final"
                       /\ m.content = v.responses[Len(v.responses)].content

\* both calls are in the middle of their loops, each with turns behind it
C18_Witness ==
    /\ active = 1
    /\ pc = "for"
    /\ iteration = 3
    /\ parked.pc = "create"
    /\ parked.iteration = 2
    /\ Len(messages) > Len(initial)
    /\ Len(parked.messages) > Len(parked.initial)

(***************************************************************************)
(* C20 (as claimed): get_completion_from_messages makes at most two        *)
(* gateway calls and executes at most one tool.  When the first response   *)
(* carries tool requests, the invocation ends having executed the first    *)
(* request only, having appended one assistant message with that single    *)
(* request and one tool message with its identifier, and having made a     *)
(* second gateway call whose response it returns as it is (or whose        *)
(* failure it passes on), no request of the second response being          *)
(* executed.  When the first response has no tool requests it is returned  *)
(* after one gateway call with the transcript unchanged.                   *)
(***************************************************************************)
C20_Claim ==
    /\ gatewayCalls <= 2
    /\ Len(executed) <= 1
    /\ (PureTerminated /\ Len(responses) >= 1)
       => IF responses[1].tool_calls # <<>>
          THEN LET first == responses[1].tool_calls[1]
                   a == messages[Len(initial) + 1]
                   t == messages[Len(initial) + 2]
               IN /\ executed = <<first.id>>
                  /\ Len(messages) = Len(initial) + 2
                  /\ SubSeq(messages, 1, Len(initial)) = initial
                  /\ HasToolCalls(a)
                  /\ Len(a.tool_calls) = 1
                  /\ a.tool_calls[1].id = first.id
                  /\ a.tool_calls[1].function.name = first.function.name
                  /\ IsToolMessage(t)
                  /\ t.tool_call_id = first.id
                  /\ gatewayCalls = 2
                  /\ IF Len(responses) = 2
                     THEN Outcome = [kind |-> "return", value |-> responses[2]]
                     ELSE Outcome = [kind |-> "raise", value |-> "GatewayError"]
          ELSE /\ gatewayCalls = 1
               /\ messages = initial
               /\ executed = <<>>
               /\ Outcome = [kind |-> "return", value |-> responses[1]]

====
